---- MODULE Spec2Model ----
(***************************************************************************)
(* Model of src/devices/temperature_sensor.rs (phidget-rs): the            *)
(* TemperatureSensor wrapper, its three callback slots, the double-boxed   *)
(* callback contexts it allocates, the native channel it owns and the      *)
(* native library's delivery of temperature-change events.                 *)
(*                                                                         *)
(* The native library (phidget22) and the crate's helpers outside this     *)
(* file (ReturnCode::result, crate::drop_cb, crate::phidget::set_on_*,     *)
(* Phidget::open/close/is_open) are external collaborators: their results  *)
(* are inputs drawn nondeterministically, their effects on the channel are *)
(* the ones their names and call sites state.                              *)
(*                                                                         *)
(* Event delivery and every method of the owning thread are atomic steps:  *)
(* whether phidget22's close/delete wait for a callback in flight is not   *)
(* decided by this file.                                                   *)
(***************************************************************************)
EXTENDS Integers, Sequences, FiniteSets, TLC

\* ---------------------------------------------------------------- bounds
\* Box allocations made over one run (addresses 1..MaxCtx).
MaxCtx == 2
\* Distinct user closures that can be passed as a handler.
NumF == 2
\* Temperature values an event can carry: 0..MaxTemp.
MaxTemp == 1
\* Temperature-change events delivered over one run.
MaxEvents == 2
\* Native channel handles a sensor can be built on: 1..NumChans.
NumChans == 1
\* Non-zero native return codes: 1..MaxErr.
MaxErr == 2

\* Option::None for a callback slot, and the null pointer.
None == 0
NULL == 0

Ctxs == 1..MaxCtx
Closures == 1..NumF
Temps == 0..MaxTemp
Chans == 1..NumChans

VARIABLES
    sensor,      \* the owning TemperatureSensor: chan, cb, attach_cb, detach_cb
    alive,       \* FALSE once the owning sensor has been dropped
    heap,        \* per address: the state of the Box<Box<dyn Fn>> there
    nextCtx,     \* the next address Box::new hands out
    chanState,   \* the native channel: created, open, closed, deleted
    libTemp,     \* ctx the library holds for the temperature-change handler
    libAttach,   \* ctx the library holds for the attach handler
    libDetach,   \* ctx the library holds for the detach handler
    registeredF, \* closure given to the last accepted temperature registration
    lastEvent,   \* the last event the library delivered: chan, ctx, t
    calls,       \* user-closure invocations made by the last event
    tempSensor,  \* the temporary sensor the last event built
    nEvents,     \* events delivered so far
    op,          \* the operation that made the last step
    helperRet,   \* what the external registration helper returned last
    result       \* what the last method returned

vars == << sensor, alive, heap, nextCtx, chanState, libTemp, libAttach, libDetach,
           registeredF, lastEvent, calls, tempSensor, nEvents, op, helperRet, result >>

\* ------------------------------------------------------------ data model
Ok(v) == [ok |-> TRUE, val |-> v, err |-> 0]
Err(e) == [ok |-> FALSE, val |-> 0, err |-> e]

\* An address nothing was boxed at yet.
EmptyBox == [st |-> "unalloc", f |-> 0, kind |-> "none", frees |-> 0]

\* From<TemperatureSensorHandle>: the three slots start None.
TemperatureSensor_from(chan) ==
    [chan |-> chan, cb |-> None, attach_cb |-> None, detach_cb |-> None]

\* TemperatureSensor::new: PhidgetTemperatureSensor_create, then from(chan).
TemperatureSensor_new(chan) == TemperatureSensor_from(chan)

\* ReturnCode::result: 0 is Ok(()), anything else the error.
ReturnCode_result(rc) == IF rc = 0 THEN Ok(0) ELSE Err(rc)

\* Box::new(Box::new(cb)) followed by Box::into_raw: a live box at address a.
BoxIntoRaw(h, a, f, kind) ==
    [h EXCEPT ![a] = [st |-> "live", f |-> f, kind |-> kind, frees |-> 0]]

\* crate::drop_cb::<P>(Option<*mut c_void>): Box::from_raw and drop, if Some.
drop_cb(h, cb) ==
    IF cb # None
    THEN [h EXCEPT ![cb] = [@ EXCEPT !.st = "freed", !.frees = @ + 1]]
    ELSE h

\* &mut *(ctx as *mut Box<TemperatureCallback>): the closure read through ctx.
\* Reading a box that is not live is undefined: any closure, or none (0).
Deref(h, ctx) ==
    IF ctx \in DOMAIN h /\ h[ctx].st = "live" THEN {h[ctx].f} ELSE 0..NumF

\* Phidget::is_open, as Drop reads it: Ok(true), Ok(false) or an error.
IsOpenResults(cs) == {IF cs = "open" THEN "OkTrue" ELSE "OkFalse", "Err"}

Init ==
    /\ \E c \in Chans : sensor = TemperatureSensor_new(c)
    /\ alive = TRUE
    /\ heap = [a \in Ctxs |-> EmptyBox]
    /\ nextCtx = 1
    /\ chanState \in {"created", "open"}
    /\ libTemp = NULL
    /\ libAttach = NULL
    /\ libDetach = NULL
    /\ registeredF = 0
    /\ lastEvent = [chan |-> NULL, ctx |-> NULL, t |-> 0]
    /\ calls = << >>
    /\ tempSensor = TemperatureSensor_from(NULL)
    /\ nEvents = 0
    /\ op = "init"
    /\ helperRet = Ok(0)
    /\ result = Ok(0)

\* The fields of the world a method or callback can change besides the sensor.
World == [chanState |-> chanState, heap |-> heap]

\* ------------------------------------------------------------- operations
\* set_on_temperature_change_handler(&mut self, cb), the box already made at
\* ctx: the slot is written first, then the native registration is called
\* with ctx and its return code rc becomes the result.
set_on_temperature_change_handler(s, ctx, rc) ==
    [s |-> [s EXCEPT !.cb = ctx],
     passed |-> ctx,
     ret |-> ReturnCode_result(rc)]

\* set_on_attach_handler(&mut self, cb): hr is what
\* crate::phidget::set_on_attach_handler returned; `?` returns its error.
set_on_attach_handler(s, hr) ==
    IF ~hr.ok
    THEN [s |-> s, ret |-> Err(hr.err)]
    ELSE [s |-> [s EXCEPT !.attach_cb = hr.val], ret |-> Ok(0)]

\* A slip of set_on_detach_handler: the context lands in the attach slot.
set_on_detach_handler_wrong_slot(s, hr) ==
    IF ~hr.ok
    THEN [s |-> s, ret |-> Err(hr.err)]
    ELSE [s |-> [s EXCEPT !.attach_cb = hr.val], ret |-> Ok(0)]

\* set_on_detach_handler(&mut self, cb): hr is what
\* crate::phidget::set_on_detach_handler returned; `?` returns its error.
set_on_detach_handler(s, hr) ==
    IF ~hr.ok
    THEN [s |-> s, ret |-> Err(hr.err)]
    ELSE [s |-> [s EXCEPT !.detach_cb = hr.val], ret |-> Ok(0)]

\* Drop for TemperatureSensor: close if is_open() said Ok(true) (the result
\* of close is ignored), delete the channel, then drop_cb on the three slots,
\* each taken (left None).
TemperatureSensor_drop(w, s, isOpen) ==
    LET closed == IF isOpen = "OkTrue" THEN "closed" ELSE w.chanState
        h1 == drop_cb(w.heap, s.cb)
        h2 == drop_cb(h1, s.attach_cb)
        h3 == drop_cb(h2, s.detach_cb)
    IN  [chanState |-> "deleted",
         closedFirst |-> (closed = "closed"),
         heap |-> h3,
         s |-> [chan |-> NULL, cb |-> None, attach_cb |-> None, detach_cb |-> None]]

\* A slip of mem::forget: the temporary sensor goes out of scope instead, so
\* its Drop runs on the channel it was built from.
mem_forget_drops(w, s) ==
    LET d == TemperatureSensor_drop(w, s, CHOOSE r \in IsOpenResults(w.chanState) : TRUE)
    IN  [chanState |-> d.chanState, heap |-> d.heap]

\* mem::forget(sensor): the value is given up without running its Drop.
mem_forget(w, s) == w

\* A slip of on_temperature_change: the null test is inverted.
on_temperature_change_inverted_null(w, chan, ctx, temperature) ==
    IF ctx = NULL
    THEN { [w |-> mem_forget(w, TemperatureSensor_from(chan)),
            temp |-> TemperatureSensor_from(chan),
            calls |-> << [f |-> cb,
                          chan |-> TemperatureSensor_from(chan).chan,
                          t |-> temperature] >>] : cb \in Deref(w.heap, ctx) }
    ELSE { [w |-> w, temp |-> TemperatureSensor_from(NULL), calls |-> << >>] }

\* on_temperature_change(chan, ctx, temperature): the outcomes of one call by
\* the library. With ctx non-null the closure is read through ctx, a sensor
\* is built from chan, the closure is called with it and the temperature, and
\* the sensor is forgotten.
on_temperature_change(w, chan, ctx, temperature) ==
    IF ctx # NULL
    THEN { [w |-> mem_forget(w, TemperatureSensor_from(chan)),
            temp |-> TemperatureSensor_from(chan),
            calls |-> << [f |-> cb,
                          chan |-> TemperatureSensor_from(chan).chan,
                          t |-> temperature] >>] : cb \in Deref(w.heap, ctx) }
    ELSE { [w |-> w, temp |-> TemperatureSensor_from(NULL), calls |-> << >>] }

\* ---------------------------------------------------------------- actions
\* The owning thread calls set_on_temperature_change_handler(f); the library
\* answers rc and, on 0, holds the context it was passed.
SetOnTemperatureChangeHandler ==
    /\ alive
    /\ nextCtx <= MaxCtx
    /\ \E f \in Closures, rc \in 0..MaxErr :
         LET ctx == nextCtx
             r == set_on_temperature_change_handler(sensor, ctx, rc)
         IN  /\ heap' = BoxIntoRaw(heap, ctx, f, "temp")
             /\ nextCtx' = nextCtx + 1
             /\ sensor' = r.s
             /\ result' = r.ret
             /\ libTemp' = IF rc = 0 THEN r.passed ELSE libTemp
             /\ registeredF' = IF rc = 0 THEN f ELSE registeredF
             /\ helperRet' = IF rc = 0 THEN Ok(0) ELSE Err(rc)
    /\ op' = "set_on_temperature_change_handler"
    /\ UNCHANGED << alive, chanState, libAttach, libDetach, lastEvent, calls,
                    tempSensor, nEvents >>

\* The owning thread calls set_on_attach_handler(f). The helper boxes f and
\* registers it: Ok(ctx) with the library holding ctx, or the library's error.
SetOnAttachHandler ==
    /\ alive
    /\ \E f \in Closures, rc \in 0..MaxErr :
         /\ rc = 0 => nextCtx <= MaxCtx
         /\ LET hr == IF rc = 0 THEN Ok(nextCtx) ELSE Err(rc)
                r == set_on_attach_handler(sensor, hr)
            IN  /\ heap' = IF rc = 0 THEN BoxIntoRaw(heap, nextCtx, f, "attach") ELSE heap
                /\ nextCtx' = IF rc = 0 THEN nextCtx + 1 ELSE nextCtx
                /\ libAttach' = IF rc = 0 THEN nextCtx ELSE libAttach
                /\ helperRet' = hr
                /\ sensor' = r.s
                /\ result' = r.ret
    /\ op' = "set_on_attach_handler"
    /\ UNCHANGED << alive, chanState, libTemp, libDetach, registeredF, lastEvent,
                    calls, tempSensor, nEvents >>

\* The owning thread calls set_on_detach_handler(f).
SetOnDetachHandler ==
    /\ alive
    /\ \E f \in Closures, rc \in 0..MaxErr :
         /\ rc = 0 => nextCtx <= MaxCtx
         /\ LET hr == IF rc = 0 THEN Ok(nextCtx) ELSE Err(rc)
                r == set_on_detach_handler(sensor, hr)
            IN  /\ heap' = IF rc = 0 THEN BoxIntoRaw(heap, nextCtx, f, "detach") ELSE heap
                /\ nextCtx' = IF rc = 0 THEN nextCtx + 1 ELSE nextCtx
                /\ libDetach' = IF rc = 0 THEN nextCtx ELSE libDetach
                /\ helperRet' = hr
                /\ sensor' = r.s
                /\ result' = r.ret
    /\ op' = "set_on_detach_handler"
    /\ UNCHANGED << alive, chanState, libTemp, libAttach, registeredF, lastEvent,
                    calls, tempSensor, nEvents >>

\* The library delivers a temperature-change event on the open channel: it
\* calls the registered on_temperature_change with the channel's handle, the
\* context it holds and the temperature.
Deliver ==
    /\ alive
    /\ chanState = "open"
    /\ libTemp # NULL
    /\ nEvents < MaxEvents
    /\ \E t \in Temps :
         \E out \in on_temperature_change(World, sensor.chan, libTemp, t) :
            /\ lastEvent' = [chan |-> sensor.chan, ctx |-> libTemp, t |-> t]
            /\ calls' = out.calls
            /\ tempSensor' = out.temp
            /\ chanState' = out.w.chanState
            /\ heap' = out.w.heap
    /\ nEvents' = nEvents + 1
    /\ op' = "event"
    /\ result' = Ok(0)
    /\ UNCHANGED << sensor, alive, nextCtx, libTemp, libAttach, libDetach,
                    registeredF, helperRet >>

\* The owning sensor goes out of scope. A deleted channel holds no handler.
Drop ==
    /\ alive
    /\ \E isOpen \in IsOpenResults(chanState) :
         LET d == TemperatureSensor_drop(World, sensor, isOpen)
         IN  /\ chanState' = d.chanState
             /\ heap' = d.heap
             /\ sensor' = d.s
    /\ alive' = FALSE
    /\ libTemp' = NULL
    /\ libAttach' = NULL
    /\ libDetach' = NULL
    /\ op' = "drop"
    /\ result' = Ok(0)
    /\ UNCHANGED << nextCtx, registeredF, lastEvent, calls, tempSensor, nEvents,
                    helperRet >>

\* Phidget::open on the owning sensor succeeds (a failed open leaves the
\* channel as it was).
Open ==
    /\ alive
    /\ chanState \in {"created", "closed"}
    /\ chanState' = "open"
    /\ result' = Ok(0)
    /\ op' = "open"
    /\ UNCHANGED << sensor, alive, heap, nextCtx, libTemp, libAttach, libDetach,
                    registeredF, lastEvent, calls, tempSensor, nEvents, helperRet >>

\* Phidget::close on the owning sensor.
Close ==
    /\ alive
    /\ chanState = "open"
    /\ chanState' = "closed"
    /\ op' = "close"
    /\ result' = Ok(0)
    /\ UNCHANGED << sensor, alive, heap, nextCtx, libTemp, libAttach, libDetach,
                    registeredF, lastEvent, calls, tempSensor, nEvents, helperRet >>

Next ==
    \/ SetOnTemperatureChangeHandler
    \/ SetOnAttachHandler
    \/ SetOnDetachHandler
    \/ Deliver
    \/ Drop
    \/ Open
    \/ Close

Spec == Init /\ [][Next]_vars

\* ----------------------------------------------------------------- claims
\* The contexts boxed by set_on_temperature_change_handler.
TempContexts == {a \in Ctxs : heap[a].kind = "temp"}

\* C1: once Drop has completed, every callback context allocated by a
\* set_on_temperature_change_handler call has been freed exactly once: none
\* is leaked and none is freed twice.
C1_EveryTempContextFreedOnce ==
    ~alive => \A a \in TempContexts : heap[a].frees = 1

\* C3: a temperature-change event delivered with the registered context
\* invokes the closure of the last accepted registration exactly once, with
\* the event's temperature and a sensor on the event's channel handle.
C3_EventInvokesRegisteredOnce ==
    op = "event" =>
        /\ lastEvent.ctx = libTemp
        /\ calls = << [f |-> registeredF, chan |-> lastEvent.chan, t |-> lastEvent.t] >>

\* C3 witness: a second event, after a second accepted registration replaced
\* the first, carrying a non-zero temperature.
C3_Witness ==
    /\ op = "event"
    /\ nEvents = 2
    /\ lastEvent.t = 1
    /\ registeredF = 2
    /\ Cardinality(TempContexts) >= 2
    /\ Len(calls) = 1

\* C4: while the sensor lives, cb holds a context exactly when the library
\* has accepted a temperature-change registration with that context, and is
\* None otherwise (in particular after a registration that returned Err).
C4_CbIffRegistered ==
    alive =>
        /\ (sensor.cb # None <=> libTemp # NULL)
        /\ (sensor.cb # None => sensor.cb = libTemp)

\* C5: set_on_attach_handler and set_on_detach_handler change state only on
\* success: on an error of the underlying registration the call returns that
\* error and the slot keeps its value, on success the slot holds the returned
\* context, and in both cases the other two slots and the handle are unchanged.
C5_AttachDetachOnlyOnSuccess ==
    [][ /\ op' = "set_on_attach_handler" =>
            /\ ~helperRet'.ok =>
                  /\ result' = Err(helperRet'.err)
                  /\ sensor'.attach_cb = sensor.attach_cb
            /\ helperRet'.ok =>
                  /\ result'.ok
                  /\ sensor'.attach_cb = helperRet'.val
            /\ sensor'.cb = sensor.cb
            /\ sensor'.detach_cb = sensor.detach_cb
            /\ sensor'.chan = sensor.chan
        /\ op' = "set_on_detach_handler" =>
            /\ ~helperRet'.ok =>
                  /\ result' = Err(helperRet'.err)
                  /\ sensor'.detach_cb = sensor.detach_cb
            /\ helperRet'.ok =>
                  /\ result'.ok
                  /\ sensor'.detach_cb = helperRet'.val
            /\ sensor'.cb = sensor.cb
            /\ sensor'.attach_cb = sensor.attach_cb
            /\ sensor'.chan = sensor.chan ]_vars

\* C5 witness: a failed set_on_detach_handler on a sensor whose attach and
\* detach slots were both set by earlier successful calls.
C5_Witness ==
    /\ op = "set_on_detach_handler"
    /\ ~result.ok
    /\ result.err = 2
    /\ sensor.detach_cb # None
    /\ sensor.attach_cb # None

\* C6: delivering a temperature-change event has no effect on ownership: the
\* temporary sensor is built on the event's handle with its three slots None,
\* and the step neither closes nor deletes the channel, frees no context and
\* leaves the owning sensor as it was.
C6_EventLeavesOwnershipAlone ==
    [][ op' = "event" =>
            /\ tempSensor' = [chan |-> lastEvent'.chan, cb |-> None,
                              attach_cb |-> None, detach_cb |-> None]
            /\ chanState' = chanState
            /\ heap' = heap
            /\ sensor' = sensor
            /\ alive' = alive ]_vars

\* C6 witness: after two delivered events the channel is still open and the
\* owning sensor's context is still live and never freed.
C6_Witness ==
    /\ op = "event"
    /\ nEvents >= 2
    /\ alive
    /\ chanState = "open"
    /\ sensor.cb # None
    /\ heap[sensor.cb].st = "live"
    /\ heap[sensor.cb].frees = 0

====
